---------------------------- MODULE Spec2Model ----------------------------
(***************************************************************************)
(* A model of the lantern local-energy-community simulation:               *)
(*   - lantern/battery.py          the Battery object,                     *)
(*   - lantern/market_solution.py  the per-timestep MarketSolution and the *)
(*                                 class-level trading-network accumulator,*)
(*   - lantern/ec_dataset.py       ECDataset: construction, simulate(),    *)
(*                                 the battery step and the evaluation,    *)
(*   - lantern/main.py             run_simulation, which builds one        *)
(*                                 ECDataset per call.                     *)
(*                                                                         *)
(* Numbers.  Energies are Python floats in kWh.  Battery quantities are    *)
(* kept in fixed point, in units of 1/Unit kWh; a product or quotient with *)
(* a rate is truncated to that resolution, which stands for the rounding   *)
(* of the float operation.  Rates (0.05, 0.999, ...) are kept per mille.   *)
(* Market quantities are exact rationals: a flow network carries one       *)
(* denominator, and accumulated weights are reduced fractions <<n, d>>.    *)
(*                                                                         *)
(* Six specifications share the variables:                                 *)
(*   SpecBattery  one Battery, driven by arbitrary charge/discharge/reset  *)
(*   SpecMarket   one MarketSolution built from arbitrary supply/demand    *)
(*   Spec         a process making successive run_simulation calls         *)
(*   SpecShift    smart-device load shifting over one day of load          *)
(*   SpecLoader   the loader turning raw files into the pickled frames     *)
(*   SpecReduce   run_simulation reducing the pickled frames by month      *)
(***************************************************************************)
EXTENDS Integers, Sequences, FiniteSets, TLC

VARIABLES
    battery,      \* SpecBattery: the Battery object (NoBattery before construction)
    call,         \* SpecBattery: the latest call on the battery, with its result
    prev,         \* SpecBattery: the call before the latest one
    nops,         \* SpecBattery: number of calls made so far
    supply,       \* ECDataset.supply: timestep -> participant -> energy
    demand,       \* ECDataset.demand
    marketSolutions,           \* ECDataset.marketSolutions, a list
    overall_trading_network,   \* MarketSolution.overall_trading_network (class field)
    pc,           \* where the caller of the market stands
    data,         \* Spec: the pickled PV and load frames, reduced to the season
    ec,           \* Spec: the other fields of the current ECDataset
    results,      \* Spec: per call of run_simulation, its arguments and what it computed
    shifts,       \* the load shifts _adjust_for_smart_devices made on the current ECDataset
    loader        \* SpecLoader: the tables DataLoader._create_database fills

bvars == <<battery, call, prev, nops>>
mvars == <<supply, demand, marketSolutions, overall_trading_network, pc>>
pvars == <<data, ec, results, shifts, loader>>

vars == <<battery, call, prev, nops,
          supply, demand, marketSolutions, overall_trading_network, pc,
          data, ec, results, shifts, loader>>

-----------------------------------------------------------------------------
(* Resolution of the fixed-point representation: units per kWh, and the    *)
(* denominator of the rates.                                               *)
Unit == 10 * 10 * 10
PerMille == 10 * 10 * 10

(* constants.py *)
BATTERY_SIZE == 10
RETENTION_RATE == 999
CONVERSION_LOSS == 50
C_RATE == 500
DISCHARGE_THRESHOLD == 150
CHARGE_THRESHOLD == PerMille - DISCHARGE_THRESHOLD
\* 1e-7 kWh is below the resolution 1/Unit.
EPS == 0

(* main.py hands timestepDuration = 1 (hour) to every ECDataset. *)
TIMESTEP_DURATION == 1

SOURCE == "s"
TARGET == "t"
\* float("inf"): a capacity no flow is compared with
UNBOUNDED == -1

(* Bounds of the market harness: participants, and the largest supply or  *)
(* demand of one participant (in kWh).                                    *)
MarketSize == 4
MaxQty == 2

(* Bounds of the battery harness. *)
MaxOps == 4
MaxAmount == 6
AmountSteps == 3

(* Bounds of the pipeline: community size, timesteps per run, calls of     *)
(* run_simulation in one process, and the largest PV output and load of    *)
(* one participant in one timestep (in kWh).                               *)
NumParticipants == 2
Hours == 2
MaxRuns == 2
MaxPv == 6
MaxLoad == 2

Min(a, b) == IF a <= b THEN a ELSE b
Max(a, b) == IF a >= b THEN a ELSE b

-----------------------------------------------------------------------------
(*                              battery.py                                 *)

NoBattery == [capacity |-> -1, current_cap |-> -1, timestep_duration |-> 0]

\* Battery.__init__ after its assertion: the object's three fields.
BatteryInit(capacity, timestep_duration) ==
    [capacity          |-> capacity,
     current_cap       |-> (DISCHARGE_THRESHOLD * capacity) \div PerMille,
     timestep_duration |-> timestep_duration]

\* Mutant: the capacity assertion dropped.
BatteryInitAssertsNothing(capacity) == TRUE

\* The assertion of Battery.__init__.
BatteryInitAsserts(capacity) == capacity >= 0

MinAllowedCharge(b) == (DISCHARGE_THRESHOLD * b.capacity) \div PerMille

MaxAllowedCharge(b) == (CHARGE_THRESHOLD * b.capacity) \div PerMille

GetCRateLimit(b) == (C_RATE * b.timestep_duration * b.capacity) \div PerMille

\* maxChargeAmount * (1 / (1 - CONVERSION_LOSS))
MaxChargeAmount(b) ==
    LET headroom == Max(0, MaxAllowedCharge(b) - b.current_cap)
        limited  == Min(headroom, GetCRateLimit(b))
    IN  (limited * PerMille) \div (PerMille - CONVERSION_LOSS)

\* maxDischargeAmount * (1 - CONVERSION_LOSS)
MaxDischargeAmount(b) ==
    LET available == Max(0, b.current_cap - MinAllowedCharge(b))
        cRateLimit == (C_RATE * b.timestep_duration * b.capacity) \div PerMille
        limited   == Min(available, cRateLimit)
    IN  (limited * (PerMille - CONVERSION_LOSS)) \div PerMille

\* Mutant: the bookkeeping runs twice.
TimestepTwice(b) ==
    LET factor  == PerMille - ((PerMille - RETENTION_RATE) * b.timestep_duration)
        once    == (Min(b.capacity, Max(0, b.current_cap)) * factor) \div PerMille
    IN  [b EXCEPT !.current_cap = (Min(b.capacity, Max(0, once)) * factor) \div PerMille]

\* Battery._timestep: clamp into [0, capacity], then the retention loss.
Timestep(b) ==
    LET clamped == Min(b.capacity, Max(0, b.current_cap))
        factor  == PerMille - ((PerMille - RETENTION_RATE) * b.timestep_duration)
    IN  [b EXCEPT !.current_cap = (clamped * factor) \div PerMille]

\* "amount * 1 - CONVERSION_LOSS": Python evaluates (amount * 1) - 0.05, so
\* the loss is the absolute quantity 0.05 kWh, not a share of the amount.
ChargedAmount(amount) == amount * 1 - (CONVERSION_LOSS * Unit) \div PerMille

\* Mutant: the conversion loss forgotten on the way out.
DischargedAmountNoLoss(amount) == amount

\* "amount * 1 / (1 - CONVERSION_LOSS)": (amount * 1) / 0.95.
DischargedAmount(amount) == (amount * 1 * PerMille) \div (PerMille - CONVERSION_LOSS)

\* Battery.charge: the amount drawn, the charge before bookkeeping, the
\* object after the call.
Charge(b, requested) ==
    LET amount == Min(requested, MaxChargeAmount(b))
        pre    == [b EXCEPT !.current_cap = b.current_cap + ChargedAmount(amount)]
    IN  [ret |-> amount, pre |-> pre.current_cap, battery |-> Timestep(pre)]

\* Mutant: the request not limited to what the battery can deliver.
DischargeUnlimited(b, requested) ==
    LET amount == Max(requested, MaxDischargeAmount(b))
        pre    == [b EXCEPT !.current_cap = b.current_cap - DischargedAmount(amount)]
    IN  [ret |-> amount, pre |-> pre.current_cap, battery |-> Timestep(pre)]

\* Battery.discharge.
Discharge(b, requested) ==
    LET amount == Min(requested, MaxDischargeAmount(b))
        pre    == [b EXCEPT !.current_cap = b.current_cap - DischargedAmount(amount)]
    IN  [ret |-> amount, pre |-> pre.current_cap, battery |-> Timestep(pre)]

\* Battery.reset.
Reset(b) == [b EXCEPT !.current_cap = (DISCHARGE_THRESHOLD * b.capacity) \div PerMille]

\* The body of the loops of ECDataset._adjust_for_batteries for one timestep
\* and one participant, whose supply and demand are s and d:
\*   if supply > 0: charge(supply)   elif demand > 0: discharge(demand)
BatteryStep(b, s, d) ==
    IF s > 0
    THEN LET r == Charge(b, s)
         IN  [op |-> "charge", amount |-> s, ret |-> r.ret, pre |-> r.pre,
              battery |-> r.battery]
    ELSE IF d > 0
    THEN LET r == Discharge(b, d)
         IN  [op |-> "discharge", amount |-> d, ret |-> r.ret, pre |-> r.pre,
              battery |-> r.battery]
    ELSE [op |-> "skip", amount |-> 0, ret |-> 0, pre |-> b.current_cap,
          battery |-> b]


-----------------------------------------------------------------------------
(*                          exact rationals                                *)

RECURSIVE GCD(_, _)
GCD(a, b) == IF b = 0 THEN a ELSE GCD(b, a % b)

\* The reduced fraction n/d (n >= 0, d > 0).
Q(n, d) == LET g == GCD(n, d) IN <<n \div g, d \div g>>

AddQ(x, y) == Q(x[1] * y[2] + y[1] * x[2], x[2] * y[2])

\* sum(f[x] for x in S)
RECURSIVE SumOver(_, _)
SumOver(f, S) ==
    IF S = {} THEN 0
    ELSE LET x == CHOOSE y \in S : TRUE IN f[x] + SumOver(f, S \ {x})

\* sum(sorted(row))
SumRow(row) == SumOver(row, DOMAIN row)

-----------------------------------------------------------------------------
(*                         market_solution.py                              *)

\* MarketSolution._get_node: str(n), the decimal name of participant n.
GetNode(n) == ToString(n)

GetNodeAsserts(n) == GetNode(n) # SOURCE /\ GetNode(n) # TARGET

\* Mutant: the larger side is left alone and the smaller side scaled up.
FairRatiosWrongSide(total_supply, total_demand) ==
    IF total_supply > total_demand /\ total_demand # 0
    THEN [supply_ratio |-> <<1, 1>>, demand_ratio |-> <<total_supply, total_demand>>]
    ELSE IF total_supply # 0 /\ total_demand > total_supply
    THEN [supply_ratio |-> <<total_demand, total_supply>>, demand_ratio |-> <<1, 1>>]
    ELSE [supply_ratio |-> <<1, 1>>, demand_ratio |-> <<1, 1>>]

\* Mutant: the demand side is scaled without looking at total_demand.
FairRatiosUnguarded(total_supply, total_demand) ==
    IF total_supply > total_demand
    THEN [supply_ratio |-> <<total_demand, total_supply>>, demand_ratio |-> <<1, 1>>]
    ELSE [supply_ratio |-> <<1, 1>>, demand_ratio |-> <<total_supply, total_demand>>]

\* The scaling of _construct_fair_network; a ratio is <<numerator, denominator>>.
FairRatios(total_supply, total_demand) ==
    IF total_supply > total_demand
    THEN [supply_ratio |-> <<total_demand, total_supply>>, demand_ratio |-> <<1, 1>>]
    ELSE IF total_demand # 0
    THEN [supply_ratio |-> <<1, 1>>, demand_ratio |-> <<total_supply, total_demand>>]
    ELSE [supply_ratio |-> <<1, 1>>, demand_ratio |-> <<1, 1>>]

\* The producers and consumers of _construct_fair_network's loop.
ProducersOf(supply_t, demand_t) == {i \in DOMAIN supply_t : supply_t[i] > 0}

ConsumersOf(supply_t, demand_t) ==
    {i \in DOMAIN supply_t : ~(supply_t[i] > 0) /\ demand_t[i] > 0}

\* Mutant: a producer is linked to the consumers of higher index only.
InteriorEdgesForward(producers, consumers) ==
    {<<GetNode(e[1]), GetNode(e[2])>> :
        e \in {x \in producers \X consumers : x[2] > x[1]}}

\* network.add_edges_from(...): every producer to every consumer.
InteriorEdges(producers, consumers) ==
    {<<GetNode(p), GetNode(c)>> : p \in producers, c \in consumers}

\* MarketSolution._construct_fair_network.  Capacities are numerators over
\* the network's denominator den; an interior edge has capacity UNBOUNDED.
ConstructFairNetwork(supply_t, demand_t) ==
    LET total_supply == SumRow(supply_t)
        total_demand == SumRow(demand_t)
        r            == FairRatios(total_supply, total_demand)
        den          == r.supply_ratio[2] * r.demand_ratio[2]
        producers    == ProducersOf(supply_t, demand_t)
        consumers    == ConsumersOf(supply_t, demand_t)
        srcEdges     == {<<SOURCE, GetNode(i)>> : i \in producers}
        sinkEdges    == {<<GetNode(i), TARGET>> : i \in consumers}
        interior     == InteriorEdges(producers, consumers)
    IN  [den   |-> den,
         nodes |-> {SOURCE, TARGET} \cup {GetNode(i) : i \in DOMAIN supply_t},
         cap   |-> [e \in srcEdges \cup sinkEdges \cup interior |->
                      IF e[1] = SOURCE
                      THEN LET i == CHOOSE p \in producers : GetNode(p) = e[2]
                           IN  supply_t[i] * r.supply_ratio[1] * r.demand_ratio[2]
                      ELSE IF e[2] = TARGET
                      THEN LET i == CHOOSE c \in consumers : GetNode(c) = e[1]
                           IN  demand_t[i] * r.demand_ratio[1] * r.supply_ratio[2]
                      ELSE UNBOUNDED]]

(* nx.maximum_flow(N_fair, SOURCE, TARGET) returns the value and the edge   *)
(* flows of a maximum flow; which one is the library's choice.  The model   *)
(* takes every maximum flow on the grid whose step is the greatest common   *)
(* divisor of the finite capacities (a maximum flow of the network exists   *)
(* on that grid).                                                           *)

Edges(net) == DOMAIN net.cap
SourceEdges(net) == {e \in Edges(net) : e[1] = SOURCE}
SinkEdges(net) == {e \in Edges(net) : e[2] = TARGET}
InnerEdges(net) == Edges(net) \ (SourceEdges(net) \cup SinkEdges(net))

RECURSIVE GCDOver(_, _)
GCDOver(f, S) ==
    IF S = {} THEN 0
    ELSE LET x == CHOOSE y \in S : TRUE IN GCD(f[x], GCDOver(f, S \ {x}))

Grain(net) ==
    LET g == GCDOver(net.cap, SourceEdges(net) \cup SinkEdges(net))
    IN  IF g = 0 THEN 1 ELSE g

OutOf(f, u) == SumOver(f, {e \in DOMAIN f : e[1] = u})
InTo(f, v) == SumOver(f, {e \in DOMAIN f : e[2] = v})

\* A flow: within every capacity, and what enters a participant's node
\* leaves it.
IsFlow(net, f) ==
    /\ DOMAIN f = Edges(net)
    /\ \A e \in Edges(net) :
          f[e] >= 0 /\ (net.cap[e] = UNBOUNDED \/ f[e] <= net.cap[e])
    /\ \A n \in net.nodes \ {SOURCE, TARGET} : InTo(f, n) = OutOf(f, n)

FlowValue(f) == OutOf(f, SOURCE)

\* The most that can still leave the source, and reach the sink, when the
\* inner edges outside todo carry f: an upper bound on the value of every
\* completion of f.
Reach(net, todo, f) ==
    LET srcRoom(i)  == net.cap[<<SOURCE, i>>] - OutOf(f, i)
        sinkRoom(j) == net.cap[<<j, TARGET>>] - InTo(f, j)
        rows == [e \in SourceEdges(net) |->
                    Min(net.cap[e],
                        OutOf(f, e[2])
                          + SumOver([x \in todo |-> sinkRoom(x[2])],
                                    {x \in todo : x[1] = e[2]}))]
        cols == [e \in SinkEdges(net) |->
                    Min(net.cap[e],
                        InTo(f, e[1])
                          + SumOver([x \in todo |-> srcRoom(x[1])],
                                    {x \in todo : x[2] = e[1]}))]
    IN  Min(SumOver(rows, DOMAIN rows), SumOver(cols, DOMAIN cols))

\* The assignments of the inner edges in todo that extend f, stay within the
\* source and sink capacities and can still reach the given value.
RECURSIVE InnerFlows(_, _, _, _, _)
InnerFlows(net, grain, todo, f, value) ==
    IF Reach(net, todo, f) < value THEN {}
    ELSE IF todo = {} THEN {f}
    ELSE LET e    == CHOOSE x \in todo : TRUE
             room == Min(net.cap[<<SOURCE, e[1]>>] - OutOf(f, e[1]),
                         net.cap[<<e[2], TARGET>>] - InTo(f, e[2]))
         IN  UNION {InnerFlows(net, grain, todo \ {e},
                               [x \in DOMAIN f \cup {e} |->
                                    IF x = e THEN k * grain ELSE f[x]],
                               value)
                    : k \in 0 .. (room \div grain)}

\* The flows of a given value, on the grid: an inner flow, with the source
\* and sink edges carrying what conservation requires.
FlowsOfValue(net, value) ==
    LET inner == InnerFlows(net, Grain(net), InnerEdges(net),
                            [e \in {} |-> 0], value)
        whole(g) == [e \in Edges(net) |->
                        IF e[1] = SOURCE THEN OutOf(g, e[2])
                        ELSE IF e[2] = TARGET THEN InTo(g, e[1])
                        ELSE g[e]]
    IN  {f \in {whole(g) : g \in inner} : IsFlow(net, f) /\ FlowValue(f) = value}

\* The flows of the largest value, at most v, that some flow has.
RECURSIVE LargestFlowsFrom(_, _)
LargestFlowsFrom(net, v) ==
    LET flows == FlowsOfValue(net, v)
    IN  IF v <= 0 \/ flows # {} THEN flows
        ELSE LargestFlowsFrom(net, v - Grain(net))

\* The maximum flows.  No flow exceeds the capacity leaving the source or
\* entering the sink, so the search starts there.
\* Mutant: the library returns the flow that moves nothing.
MaximumFlowsMovingNothing(net) == FlowsOfValue(net, 0)

MaximumFlows(net) ==
    LargestFlowsFrom(net, Min(SumOver(net.cap, SourceEdges(net)),
                              SumOver(net.cap, SinkEdges(net))))

\* Mutant: the node of the next participant is read.
GetQtySoldForMemberShifted(sol, member) ==
    IF <<SOURCE, GetNode(member + 1)>> \in DOMAIN sol.sellMap
    THEN sol.sellMap[<<SOURCE, GetNode(member + 1)>>] ELSE 0

\* self.sellMap[SOURCE].get(node, 0), a numerator over sol.den
GetQtySoldForMember(sol, member) ==
    IF <<SOURCE, GetNode(member)>> \in DOMAIN sol.sellMap
    THEN sol.sellMap[<<SOURCE, GetNode(member)>>] ELSE 0

\* self.sellMap[node].get(TARGET, 0), a numerator over sol.den
GetQtyPurchasedForMember(sol, member) ==
    IF <<GetNode(member), TARGET>> \in DOMAIN sol.sellMap
    THEN sol.sellMap[<<GetNode(member), TARGET>>] ELSE 0

\* Mutant: the edges touching the source and the sink are overlaid as well.
AddFlowToTotalNetworkAllEdges(network, sellMap, den) ==
    LET new == {e \in DOMAIN sellMap : sellMap[e] > 0}
    IN  [e \in DOMAIN network \cup new |->
            IF e \notin new THEN network[e]
            ELSE IF e \notin DOMAIN network THEN Q(sellMap[e], den)
            ELSE AddQ(network[e], Q(sellMap[e], den))]

\* Mutant: an edge already in the accumulator is overwritten, not added to.
AddFlowToTotalNetworkOverwriting(network, sellMap, den) ==
    LET new == {e \in DOMAIN sellMap :
                    /\ ~(e[1] = SOURCE \/ e[1] = TARGET)
                    /\ ~(e[2] = SOURCE \/ e[2] = TARGET)
                    /\ sellMap[e] > 0}
    IN  [e \in DOMAIN network \cup new |->
            IF e \notin new THEN network[e] ELSE Q(sellMap[e], den)]

\* MarketSolution._add_flow_to_total_network: the accumulator after the
\* overlay.  The accumulator maps (seller, buyer) to a reduced fraction.
AddFlowToTotalNetwork(network, sellMap, den) ==
    LET new == {e \in DOMAIN sellMap :
                    /\ ~(e[1] = SOURCE \/ e[1] = TARGET)
                    /\ ~(e[2] = SOURCE \/ e[2] = TARGET)
                    /\ sellMap[e] > 0}
    IN  [e \in DOMAIN network \cup new |->
            IF e \notin new THEN network[e]
            ELSE IF e \notin DOMAIN network THEN Q(sellMap[e], den)
            ELSE AddQ(network[e], Q(sellMap[e], den))]

\* MarketSolution.__init__ up to the overlay: the object's fields, given the
\* maximum flow the library returned.  tradingVolume is a numerator over den.
MarketSolution(supply_t, demand_t, flow) ==
    LET supplyVolume == SumRow(supply_t)
        N_fair       == ConstructFairNetwork(supply_t, demand_t)
    IN  [supplyVolume  |-> supplyVolume,
         N_fair        |-> N_fair,
         den           |-> N_fair.den,
         tradingVolume |-> Min(FlowValue(flow), supplyVolume * N_fair.den),
         sellMap       |-> flow]

EmptyNetwork == [e \in {} |-> <<0, 1>>]

-----------------------------------------------------------------------------
(*                 SpecBattery: one Battery and its callers                *)

Capacities == {-1 * Unit, 0, BATTERY_SIZE * Unit}

Amounts == {(k * MaxAmount * Unit) \div AmountSteps : k \in 0 .. AmountSteps}

NoCall == [op |-> "none", amount |-> 0, ret |-> 0, before |-> 0, pre |-> 0]

BatteryIdle ==
    /\ battery = NoBattery
    /\ call = NoCall
    /\ prev = NoCall
    /\ nops = 0

\* Battery(capacity, timestep_duration)
BConstruct(capacity) ==
    /\ call.op = "none"
    /\ IF BatteryInitAsserts(capacity)
       THEN /\ battery' = BatteryInit(capacity, TIMESTEP_DURATION)
            /\ call' = [NoCall EXCEPT !.op = "init", !.amount = capacity]
       ELSE /\ battery' = NoBattery
            /\ call' = [NoCall EXCEPT !.op = "AssertionError", !.amount = capacity]
    /\ prev' = call
    /\ UNCHANGED nops

BCharge(amount) ==
    /\ battery # NoBattery
    /\ nops < MaxOps
    /\ LET r == Charge(battery, amount)
       IN  /\ battery' = r.battery
           /\ call' = [op |-> "charge", amount |-> amount, ret |-> r.ret,
                       before |-> battery.current_cap, pre |-> r.pre]
    /\ prev' = call
    /\ nops' = nops + 1

BDischarge(amount) ==
    /\ battery # NoBattery
    /\ nops < MaxOps
    /\ LET r == Discharge(battery, amount)
       IN  /\ battery' = r.battery
           /\ call' = [op |-> "discharge", amount |-> amount, ret |-> r.ret,
                       before |-> battery.current_cap, pre |-> r.pre]
    /\ prev' = call
    /\ nops' = nops + 1

BReset ==
    /\ battery # NoBattery
    /\ nops < MaxOps
    /\ call.op \in {"charge", "discharge"}
    /\ battery' = Reset(battery)
    /\ call' = [NoCall EXCEPT !.op = "reset", !.before = battery.current_cap,
                              !.pre = Reset(battery).current_cap]
    /\ prev' = call
    /\ nops' = nops + 1

\* One pass of the inner loop of _adjust_for_batteries on the battery: the
\* participant has a surplus, a deficit or neither.
BStep(s, d) ==
    /\ battery # NoBattery
    /\ nops < MaxOps
    /\ LET r == BatteryStep(battery, s, d)
       IN  /\ battery' = r.battery
           /\ call' = [op |-> r.op, amount |-> r.amount, ret |-> r.ret,
                       before |-> battery.current_cap, pre |-> r.pre]
    /\ prev' = call
    /\ nops' = nops + 1

\* The market side when nothing has been built.
MarketIdle ==
    /\ supply = <<>>
    /\ demand = <<>>
    /\ marketSolutions = <<>>
    /\ overall_trading_network = EmptyNetwork
    /\ pc = "idle"

\* The pipeline side when run_simulation is never called.
NoData == [pv |-> <<>>, load |-> <<>>]

NoLoader == [pc |-> "none", listing |-> <<>>, idx |-> 0,
             individual_household_load_table |-> {}, load_table |-> {}]

NoDataset == [production |-> <<>>, consumption |-> <<>>, index |-> <<>>,
              smart_device_percentage |-> 0, with_battery |-> FALSE,
              charge_volume_per_member |-> <<>>,
              discharge_volume_per_member |-> <<>>]

PipelineIdle ==
    /\ data = NoData
    /\ ec = NoDataset
    /\ results = <<>>
    /\ shifts = {}
    /\ loader = NoLoader

InitBattery == BatteryIdle /\ MarketIdle /\ PipelineIdle

NextBattery ==
    \/ \E capacity \in Capacities :
          BConstruct(capacity) /\ UNCHANGED <<mvars, pvars>>
    \/ \E amount \in Amounts :
          BCharge(amount) /\ UNCHANGED <<mvars, pvars>>
    \/ \E amount \in Amounts \cup {call.ret} :
          BDischarge(amount) /\ UNCHANGED <<mvars, pvars>>
    \/ BReset /\ UNCHANGED <<mvars, pvars>>
    \/ \E amount \in Amounts, surplus \in BOOLEAN :
          BStep(IF surplus THEN amount ELSE 0, IF surplus THEN 0 ELSE amount)
              /\ UNCHANGED <<mvars, pvars>>

SpecBattery == InitBattery /\ [][NextBattery]_vars


-----------------------------------------------------------------------------
(*        SpecMarket: one MarketSolution from arbitrary supply/demand      *)

NumTimesteps == Cardinality(DOMAIN supply)

\* Mutant: the loop hands the rows over from the last timestep to the first.
ClearTimestepReversed ==
    /\ pc = "market"
    /\ Len(marketSolutions) < NumTimesteps
    /\ \A i \in DOMAIN supply[Len(marketSolutions)] : GetNodeAsserts(i)
    /\ LET t == NumTimesteps - 1 - Len(marketSolutions)
       IN  \E flow \in MaximumFlows(ConstructFairNetwork(supply[t], demand[t])) :
              LET sol == MarketSolution(supply[t], demand[t], flow)
              IN  /\ marketSolutions' = Append(marketSolutions, sol)
                  /\ overall_trading_network' =
                        AddFlowToTotalNetwork(overall_trading_network,
                                              sol.sellMap, sol.den)
    /\ UNCHANGED <<supply, demand, pc>>

\* One pass of the loop of ECDataset.simulate:
\*   self.marketSolutions.append(MarketSolution(supply.iloc[t], demand.iloc[t]))
ClearTimestep ==
    /\ pc = "market"
    /\ Len(marketSolutions) < NumTimesteps
    /\ \A i \in DOMAIN supply[Len(marketSolutions)] : GetNodeAsserts(i)
    /\ LET t == Len(marketSolutions)
       IN  \E flow \in MaximumFlows(ConstructFairNetwork(supply[t], demand[t])) :
              LET sol == MarketSolution(supply[t], demand[t], flow)
              IN  /\ marketSolutions' = Append(marketSolutions, sol)
                  /\ overall_trading_network' =
                        AddFlowToTotalNetwork(overall_trading_network,
                                              sol.sellMap, sol.den)
    /\ UNCHANGED <<supply, demand, pc>>

\* Supply and demand as ECDataset derives them: per participant a net
\* position, so at most one of the two is nonzero.
Clip(x) == IF x < 0 THEN 0 ELSE x

NetPositions == [0 .. MarketSize - 1 -> (0 - MaxQty) .. MaxQty]

InitMarket ==
    /\ BatteryIdle
    /\ PipelineIdle
    /\ \E net \in NetPositions :
          /\ supply = [t \in {0} |-> [i \in DOMAIN net |-> Clip(net[i])]]
          /\ demand = [t \in {0} |-> [i \in DOMAIN net |-> Clip(0 - net[i])]]
    /\ marketSolutions = <<>>
    /\ overall_trading_network = EmptyNetwork
    /\ pc = "market"

NextMarket == ClearTimestep /\ UNCHANGED <<bvars, pvars>>

SpecMarket == InitMarket /\ [][NextMarket]_vars

-----------------------------------------------------------------------------
(*      Spec: a process that calls run_simulation again and again          *)
(*      (the web service of app.py does; the command line calls it once)   *)

Participants == 0 .. NumParticipants - 1
Timesteps == 0 .. Hours - 1

\* The frames run_simulation reads from the pickles, after its reduction to
\* the season's (month, hour) means and its transposition: timestep ->
\* participant -> energy, in 1/Unit kWh.
PvFrames == [Timesteps -> [Participants -> {0, MaxPv * Unit}]]
LoadFrames == [Timesteps -> [Participants -> {Unit, MaxLoad * Unit}]]

\* The index of those frames: pd.Timestamp(2024, month, 15, hour), here the
\* first hours of the season's first month.  A timestamp is a date
\* <<month, day>> and an hour.
MonthlyIndex == [t \in Timesteps |-> [date |-> <<6, 15>>, hour |-> t]]

\* The arguments the process calls run_simulation with.  The frames above
\* stand for the community_size rows the call keeps, so community_size only
\* meets its range check.  In range: the smallest community, the summer
\* season, no smart devices, any of three PV shares, with and without
\* batteries; and smart devices in half of the households, with and without
\* batteries.  Out of range: one argument at a time, the others in range.
PvPercentages == {0 - 1, 0, 50, 100, 101}
SdPercentages == {0 - 1, 0, 50, 101}

Arguments(community_size, season, pv_percentage, sd_percentage, with_battery) ==
    [community_size |-> community_size, season |-> season,
     pv_percentage |-> pv_percentage, sd_percentage |-> sd_percentage,
     with_battery |-> with_battery]

RunArguments ==
    {Arguments(5, "sum", pv, 0, wb) : pv \in PvPercentages, wb \in BOOLEAN}
      \cup {Arguments(cs, "sum", 100, 0, FALSE) : cs \in {4, 5, 101}}
      \cup {Arguments(5, season, 100, 0, FALSE) : season \in {"sum", "xyz"}}
      \cup {Arguments(5, "sum", 100, sd, FALSE) : sd \in SdPercentages}
      \cup {Arguments(5, "sum", 100, 50, TRUE)}

\* Season, SEASON_MAP
SEASON_MAP == {"sum", "win", "aut", "spr"}

\* Mutant: the community size is not looked at.
ParamsValidAnySize(community_size, season, pv_percentage, sd_percentage) ==
    /\ season \in SEASON_MAP
    /\ 0 <= pv_percentage /\ pv_percentage <= 100
    /\ 0 <= sd_percentage /\ sd_percentage <= 100

\* The checks of run_simulation: the season, then the ranges.
ParamsValid(community_size, season, pv_percentage, sd_percentage) ==
    /\ season \in SEASON_MAP
    /\ 5 <= community_size /\ community_size <= 100
    /\ 0 <= pv_percentage /\ pv_percentage <= 100
    /\ 0 <= sd_percentage /\ sd_percentage <= 100

\* Mutant: no member's PV output is set to zero.
ZeroNoMembers(pv, pv_percentage) == pv

\* pv_data.loc[members_without_pv, :] = 0
ZeroMembersWithoutPv(pv, pv_percentage) ==
    LET community_size == Cardinality(Participants)
        num_members_without_pv ==
            community_size - ((pv_percentage * community_size) \div 100)
    IN  [t \in DOMAIN pv |->
            [i \in DOMAIN pv[t] |->
                IF i < num_members_without_pv THEN 0 ELSE pv[t][i]]]

\* Mutant: the difference is not clipped at zero.
PlainDifference(a, b) ==
    [t \in DOMAIN a |-> [i \in DOMAIN a[t] |-> a[t][i] - b[t][i]]]

\* (production - consumption).clip(lower=0)
ClippedDifference(a, b) ==
    [t \in DOMAIN a |-> [i \in DOMAIN a[t] |-> Clip(a[t][i] - b[t][i])]]

\* The shape assertion of ECDataset.__init__.
ECDatasetAsserts(production, consumption) ==
    /\ DOMAIN production = DOMAIN consumption
    /\ \A t \in DOMAIN production : DOMAIN production[t] = DOMAIN consumption[t]

\* ECDataset.__init__: the fields other than supply, demand, marketSolutions.
ECDatasetInit(production, consumption, index, smart_device_percentage, with_battery) ==
    [production                  |-> production,
     consumption                 |-> consumption,
     index                       |-> index,
     smart_device_percentage     |-> smart_device_percentage,
     with_battery                |-> with_battery,
     charge_volume_per_member    |-> [i \in Participants |-> 0],
     discharge_volume_per_member |-> [i \in Participants |-> 0]]

NoResult ==
    [params |-> Arguments(0, "", 0, 0, FALSE),
     outcome |-> "none", trading_network |-> EmptyNetwork,
     grid_in |-> <<0, 1>>, grid_out |-> <<0, 1>>,
     total_production |-> 0, total_consumption |-> 0]

\* run_simulation up to the call of simulate(): the range checks, the PV
\* share, the construction of the ECDataset.
RunSimulation(community_size, season, pv_percentage, sd_percentage, with_battery) ==
    /\ pc = "idle"
    /\ Len(results) < MaxRuns
    /\ LET production  == ZeroMembersWithoutPv(data.pv, pv_percentage)
           consumption == data.load
           failure     ==
               IF ~ParamsValid(community_size, season, pv_percentage, sd_percentage)
               THEN "ValueError"
               ELSE IF ~ECDatasetAsserts(production, consumption)
                    THEN "AssertionError"
               ELSE "none"
           started     ==
               [NoResult EXCEPT
                   !.params = Arguments(community_size, season, pv_percentage,
                                        sd_percentage, with_battery)]
       IN  IF failure # "none"
           THEN /\ results' = Append(results, [started EXCEPT !.outcome = failure])
                /\ UNCHANGED <<supply, demand, marketSolutions, pc, ec, shifts>>
           ELSE /\ ec' = ECDatasetInit(production, consumption, MonthlyIndex,
                                       sd_percentage, with_battery)
                /\ shifts' = {}
                /\ supply' = ClippedDifference(production, consumption)
                /\ demand' = ClippedDifference(consumption, production)
                /\ marketSolutions' = <<>>
                /\ pc' = "simulate"
                /\ results' = Append(results, [started EXCEPT !.outcome = "running"])
    /\ UNCHANGED <<overall_trading_network, data, loader>>

\* One participant's battery over the timesteps: s and d are the
\* participant's columns of supply and demand.  (The code walks timesteps in
\* the outer loop and participants in the inner one; the batteries do not
\* interact, so each column is folded on its own.)
RECURSIVE BatteryRun(_, _, _, _)
BatteryRun(b, t, s, d) ==
    IF t \notin DOMAIN s
    THEN [supply |-> s, demand |-> d, charged |-> 0, discharged |-> 0]
    ELSE LET r == BatteryStep(b, s[t], d[t])
         IN  IF r.op = "charge"
             THEN LET rest == BatteryRun(r.battery, t + 1,
                                         [s EXCEPT ![t] = @ - r.ret], d)
                  IN  [rest EXCEPT !.charged = @ + r.ret]
             ELSE IF r.op = "discharge"
             THEN LET rest == BatteryRun(r.battery, t + 1, s,
                                         [d EXCEPT ![t] = @ - r.ret])
                  IN  [rest EXCEPT !.discharged = @ + r.ret]
             ELSE BatteryRun(r.battery, t + 1, s, d)

\* ECDataset._adjust_for_batteries: supply, demand and the two volume
\* vectors after it.
AdjustedForBatteries(sup, dem) ==
    LET run == [i \in Participants |->
                    BatteryRun(BatteryInit(BATTERY_SIZE * Unit, TIMESTEP_DURATION),
                               0,
                               [t \in DOMAIN sup |-> sup[t][i]],
                               [t \in DOMAIN dem |-> dem[t][i]])]
    IN  [supply    |-> [t \in DOMAIN sup |-> [i \in Participants |-> run[i].supply[t]]],
         demand    |-> [t \in DOMAIN dem |-> [i \in Participants |-> run[i].demand[t]]],
         charge    |-> [i \in Participants |-> run[i].charged],
         discharge |-> [i \in Participants |-> run[i].discharged]]

\* simulate(), first statement: "if self._with_battery: self._adjust_for_batteries()"
AdjustForBatteries ==
    /\ pc = "simulate"
    /\ IF ec.with_battery
       THEN LET a == AdjustedForBatteries(supply, demand)
            IN  /\ supply' = a.supply
                /\ demand' = a.demand
                /\ ec' = [ec EXCEPT !.charge_volume_per_member = a.charge,
                                    !.discharge_volume_per_member = a.discharge]
       ELSE UNCHANGED <<supply, demand, ec>>
    /\ pc' = "smart_devices"
    /\ UNCHANGED <<marketSolutions, overall_trading_network, data, results,
                   shifts, loader>>

(* ECDataset._adjust_for_smart_devices.  The frames are indexed by timestep; *)
(* ec.index gives each timestep its timestamp.                              *)

\* Dishwasher and washing machine quantities: 0.64 kWh and 0.5 kWh.
shift_daily == (64 * Unit) \div 100
shift_3day == Unit \div 2

\* find_peaks(valid_hours, prominence=0.2, distance=N_peaks)
N_peaks == 3
PROMINENCE == Unit \div 5

\* between_time("08:00", "22:00")
WindowStart == 8
WindowEnd == 22

MinOf(S) == CHOOSE v \in S : \A w \in S : v <= w
MaxOf(S) == CHOOSE v \in S : \A w \in S : v >= w

\* the timesteps of a set, in index order
RECURSIVE InOrder(_)
InOrder(S) ==
    IF S = {} THEN <<>> ELSE <<MinOf(S)>> \o InOrder(S \ {MinOf(S)})

\* groupby("date"): the dates of the index and the rows of one date
DatesOf(index) == {index[t].date : t \in DOMAIN index}
RowsOfDay(index, day) == {t \in DOMAIN index : index[t].date = day}

\* Series.between_time("08:00", "22:00"): both ends included
BetweenTime(index, rows) ==
    {t \in rows : WindowStart <= index[t].hour /\ index[t].hour <= WindowEnd}

\* Series.nlargest(n).index: largest first, equal values in index order
RECURSIVE NLargest(_, _, _)
NLargest(n, rows, val) ==
    IF n = 0 \/ rows = {} THEN <<>>
    ELSE LET t == CHOOSE x \in rows :
                     \A y \in rows : val[x] > val[y] \/ (val[x] = val[y] /\ x <= y)
         IN  <<t>> \o NLargest(n - 1, rows \ {t}, val)

\* Series.nsmallest(n).index
RECURSIVE NSmallest(_, _, _)
NSmallest(n, rows, val) ==
    IF n = 0 \/ rows = {} THEN <<>>
    ELSE LET t == CHOOSE x \in rows :
                     \A y \in rows : val[x] < val[y] \/ (val[x] = val[y] /\ x <= y)
         IN  <<t>> \o NSmallest(n - 1, rows \ {t}, val)

(* scipy.signal.find_peaks on a sequence x: the local maxima (a flat top     *)
(* counts once, at its middle; the two ends never count), thinned so that    *)
(* kept peaks are at least `distance' samples apart (higher peaks first,     *)
(* of equal peaks the later first), then those of the required prominence.   *)
PlateauEnd(x, i) ==
    CHOOSE j \in i .. Len(x) :
        /\ \A k \in i .. j : x[k] = x[i]
        /\ j = Len(x) \/ x[j + 1] # x[i]

LocalMaxima(x) ==
    {(i + PlateauEnd(x, i)) \div 2 :
        i \in {i \in 2 .. Len(x) : /\ x[i - 1] < x[i]
                                   /\ PlateauEnd(x, i) < Len(x)
                                   /\ x[PlateauEnd(x, i) + 1] < x[i]}}

RECURSIVE SelectByPeakDistance(_, _, _, _)
SelectByPeakDistance(x, todo, keep, distance) ==
    IF todo = {} THEN keep
    ELSE LET j    == CHOOSE p \in todo :
                        \A q \in todo : x[p] > x[q] \/ (x[p] = x[q] /\ p >= q)
             near == {k \in keep : k # j /\ k - j < distance /\ j - k < distance}
         IN  SelectByPeakDistance(x, (todo \ {j}) \ near, keep \ near, distance)

PeakProminence(x, p) ==
    LET higherLeft  == {i \in 1 .. p - 1 : x[i] > x[p]}
        higherRight == {i \in p + 1 .. Len(x) : x[i] > x[p]}
        lo          == IF higherLeft = {} THEN 1 ELSE MaxOf(higherLeft) + 1
        hi          == IF higherRight = {} THEN Len(x) ELSE MinOf(higherRight) - 1
        left_min    == MinOf({x[i] : i \in lo .. p})
        right_min   == MinOf({x[i] : i \in p .. hi})
    IN  x[p] - Max(left_min, right_min)

FindPeaks(x) ==
    {p \in SelectByPeakDistance(x, LocalMaxima(x), LocalMaxima(x), N_peaks) :
        PeakProminence(x, p) >= PROMINENCE}

\* The hours the loop body picks for one day: peak_hours, valley_hours and
\* high_pv_hours, each a sequence of timesteps.
DayPlan(index, consumption, production, day) ==
    LET rows          == RowsOfDay(index, day)
        total_demand  == [t \in rows |-> SumRow(consumption[t])]
        valid         == BetweenTime(index, rows)
        valid_hours   == InOrder(valid)
        x             == [k \in 1 .. Len(valid_hours) |-> total_demand[valid_hours[k]]]
        peak_indices  == FindPeaks(x)
        pv_generation == [t \in rows |-> SumRow(production[t])]
    IN  [peak_hours    |-> IF peak_indices # {}
                           THEN NLargest(3, {valid_hours[k] : k \in peak_indices},
                                         total_demand)
                           ELSE NLargest(3, valid, total_demand),
         valley_hours  |-> NSmallest(N_peaks, valid, total_demand),
         high_pv_hours |-> NLargest(3, rows, pv_generation)]

\* np.random.choice(high_pv_hours) if not high_pv_hours.empty
\* else np.random.choice(valley_hours): the hours that can be drawn
ShiftTargets(plan) ==
    IF Len(plan.high_pv_hours) > 0
    THEN {plan.high_pv_hours[k] : k \in DOMAIN plan.high_pv_hours}
    ELSE {plan.valley_hours[k] : k \in DOMAIN plan.valley_hours}

\* Mutant: the shift is made whatever load the user has at the peak hour.
EnoughLoadAlways(load, quantity) == TRUE

\* "user has enough load to shift"
EnoughLoad(load, quantity) == load >= quantity

\* Mutant: the quantity taken from the peak hour is not added anywhere.
MovedNowhere(df, user, peak_hour, shift_target, quantity) ==
    [df EXCEPT ![peak_hour][user] = @ - quantity]

\* df_shifted.loc[peak_hour, user] -= quantity
\* df_shifted.loc[shift_target, user] += quantity
Moved(df, user, peak_hour, shift_target, quantity) ==
    [df EXCEPT ![peak_hour][user] = @ - quantity,
               ![shift_target][user] = @ + quantity]

\* One user's turn in one of the two loops: every outcome of the draw, as
\* the frame and the shifts made so far.
ShiftLoad(o, user, day, peak_hour, targets, quantity) ==
    IF EnoughLoad(o.df[peak_hour][user], quantity)
    THEN {[df  |-> Moved(o.df, user, peak_hour, shift_target, quantity),
           log |-> o.log \cup {[user     |-> user,
                                date     |-> day,
                                source   |-> peak_hour,
                                target   |-> shift_target,
                                quantity |-> quantity,
                                before   |-> o.df[peak_hour][user]]}] :
             shift_target \in targets}
    ELSE {o}

\* "for user in shiftable_users"
RECURSIVE ShiftUsers(_, _, _, _, _, _)
ShiftUsers(outcomes, users, day, peak_hour, targets, quantity) ==
    IF users = {} THEN outcomes
    ELSE LET user == CHOOSE u \in users : TRUE
         IN  ShiftUsers(UNION {ShiftLoad(o, user, day, peak_hour, targets, quantity) :
                                  o \in outcomes},
                        users \ {user}, day, peak_hour, targets, quantity)

\* The body of "for day, data in grouped_load": the daily shift, then the
\* shift of every third day.
ShiftDay(outcomes, e, shiftable_users, day) ==
    LET plan       == DayPlan(e.index, e.consumption, e.production, day)
        peak_hours == plan.peak_hours
        daily      == IF Len(peak_hours) > 0
                      THEN ShiftUsers(outcomes, shiftable_users, day, peak_hours[1],
                                      ShiftTargets(plan), shift_daily)
                      ELSE outcomes
    IN  IF day[2] % 3 = 0 /\ Len(peak_hours) > 0
        THEN ShiftUsers(daily, shiftable_users, day,
                        IF Len(peak_hours) > 1 THEN peak_hours[2] ELSE peak_hours[1],
                        ShiftTargets(plan), shift_3day)
        ELSE daily

RECURSIVE ShiftDays(_, _, _, _)
ShiftDays(outcomes, e, shiftable_users, days) ==
    IF days = {} THEN outcomes
    ELSE LET day == CHOOSE d \in days : TRUE
         IN  ShiftDays(ShiftDay(outcomes, e, shiftable_users, day),
                       e, shiftable_users, days \ {day})

\* np.random.choice(users, size=int(len(users) * percentage / 100), replace=False)
ShiftableUserSets(users, smart_device_percentage) ==
    {S \in SUBSET users :
        Cardinality(S) = (Cardinality(users) * smart_device_percentage) \div 100}

\* Mutant: the early return is never taken.
SkipsShiftingNever(smart_device_percentage) == FALSE

\* "if smart_device_percentage == 0: return"
SkipsShifting(smart_device_percentage) == smart_device_percentage = 0

\* simulate(), second statement: self._adjust_for_smart_devices(percentage)
AdjustForSmartDevices ==
    /\ pc = "smart_devices"
    /\ IF SkipsShifting(ec.smart_device_percentage)
       THEN UNCHANGED <<supply, demand, ec, shifts>>
       ELSE \E shiftable_users \in
                  ShiftableUserSets(Participants, ec.smart_device_percentage) :
              \E o \in ShiftDays({[df |-> ec.consumption, log |-> {}]}, ec,
                                 shiftable_users, DatesOf(ec.index)) :
                 /\ ec' = [ec EXCEPT !.consumption = o.df]
                 /\ supply' = ClippedDifference(ec.production, o.df)
                 /\ demand' = ClippedDifference(o.df, ec.production)
                 /\ shifts' = o.log
    /\ pc' = "market"
    /\ UNCHANGED <<marketSolutions, overall_trading_network, data, results, loader>>

\* sum of a frame over timesteps and participants: df.sum().sum()
RECURSIVE SumFrame(_, _)
SumFrame(m, T) ==
    IF T = {} THEN 0
    ELSE LET t == CHOOSE x \in T : TRUE
         IN  SumRow(m[t]) + SumFrame(m, T \ {t})

\* sum(sol.tradingVolume for sol in self.marketSolutions), a fraction
RECURSIVE TradingVolumeUpTo(_, _)
TradingVolumeUpTo(sols, k) ==
    IF k = 0 THEN <<0, 1>>
    ELSE AddQ(TradingVolumeUpTo(sols, k - 1),
              Q(sols[k].tradingVolume, sols[k].den))

GetTradingVolume == TradingVolumeUpTo(marketSolutions, Len(marketSolutions))

\* self.demand.sum().sum()
GetDemandVolume == SumFrame(demand, DOMAIN demand)

\* sum(sol.supplyVolume for sol in self.marketSolutions)
RECURSIVE SupplyVolumeUpTo(_, _)
SupplyVolumeUpTo(sols, k) ==
    IF k = 0 THEN 0 ELSE SupplyVolumeUpTo(sols, k - 1) + sols[k].supplyVolume

GetSupplyVolumeImprecise == SupplyVolumeUpTo(marketSolutions, Len(marketSolutions))

\* x / whole for a fraction x and an integer whole
DivQ(x, whole) == Q(x[1], x[2] * whole)

\* The market ratios _evaluate computes:
\*   getTradingVolume / getDemandVolume if getDemandVolume != 0 else 0
RatioFulfilledDemand ==
    IF GetDemandVolume # 0 THEN DivQ(GetTradingVolume, GetDemandVolume) ELSE <<0, 1>>

\*   getTradingVolume / getSupplyVolumeImprecise if ... != 0 else 0
RatioSoldSupply ==
    IF GetSupplyVolumeImprecise # 0
    THEN DivQ(GetTradingVolume, GetSupplyVolumeImprecise)
    ELSE <<0, 1>>

GetProductionVolume == SumFrame(ec.production, DOMAIN ec.production)

GetConsumptionVolume == SumFrame(ec.consumption, DOMAIN ec.consumption)

\* Mutant: production less the surplus over consumption, whatever the
\* batteries took from the supply.
GetSelfConsumptionVolumeNet ==
    SumFrame(ec.production, DOMAIN ec.production)
        - SumFrame(ClippedDifference(ec.production, ec.consumption),
                   DOMAIN ec.production)

\* (self.production - self.supply).sum().sum()
GetSelfConsumptionVolume ==
    SumFrame(ec.production, DOMAIN ec.production) - SumFrame(supply, DOMAIN supply)

GetChargeVolume ==
    SumOver(ec.charge_volume_per_member, DOMAIN ec.charge_volume_per_member)

GetDischargeVolume ==
    SumOver(ec.discharge_volume_per_member, DOMAIN ec.discharge_volume_per_member)

\* max(0, whole - traded) for an integer and a fraction
MaxZeroMinus(whole, traded) ==
    IF whole * traded[2] - traded[1] <= 0 THEN <<0, 1>>
    ELSE Q(whole * traded[2] - traded[1], traded[2])

GetGridFeedInVolume ==
    MaxZeroMinus(GetProductionVolume - GetSelfConsumptionVolume - GetChargeVolume,
                 GetTradingVolume)

GetGridPurchaseVolume ==
    MaxZeroMinus(GetConsumptionVolume - GetSelfConsumptionVolume - GetDischargeVolume,
                 GetTradingVolume)

\* constants.py: the prices, in hundredths
GRID_BUY_PRICE == 2112
GRID_SELL_PRICE == 460
P2P_PRICE == 1286

\* Mutant: the energy bought on the market is paid for at the grid as well.
TimestepCostGridInFull(amountRequired, amountFromMarket, amountSelling, amountToMarket) ==
    AddQ(AddQ(Q(amountRequired[1] * GRID_BUY_PRICE, amountRequired[2]),
              Q(amountFromMarket[1] * P2P_PRICE, amountFromMarket[2])),
         AddQ(Q((0 - amountSelling[1]) * GRID_SELL_PRICE, amountSelling[2]),
              Q(amountToMarket[1] * (GRID_SELL_PRICE - P2P_PRICE), amountToMarket[2])))

\* costGrid + costTrading - profitGrid - profitTrading of one participant in
\* one timestep; the four amounts are fractions.
TimestepCost(amountRequired, amountFromMarket, amountSelling, amountToMarket) ==
    LET amountFromGrid == AddQ(amountRequired, <<0 - amountFromMarket[1], amountFromMarket[2]>>)
        amountToGrid   == AddQ(amountSelling, <<0 - amountToMarket[1], amountToMarket[2]>>)
        costGrid       == Q(amountFromGrid[1] * GRID_BUY_PRICE, amountFromGrid[2])
        costTrading    == Q(amountFromMarket[1] * P2P_PRICE, amountFromMarket[2])
        profitGrid     == Q(amountToGrid[1] * GRID_SELL_PRICE, amountToGrid[2])
        profitTrading  == Q(amountToMarket[1] * P2P_PRICE, amountToMarket[2])
    IN  AddQ(AddQ(costGrid, costTrading),
             <<0 - AddQ(profitGrid, profitTrading)[1], AddQ(profitGrid, profitTrading)[2]>>)

\* ECDataset.computePricePerMember, entry i, over the first k timesteps
RECURSIVE PriceUpTo(_, _, _)
PriceUpTo(i, with_lec, k) ==
    IF k = 0 THEN <<0, 1>>
    ELSE LET t   == k - 1
             sol == marketSolutions[k]
         IN  AddQ(PriceUpTo(i, with_lec, k - 1),
                  TimestepCost(<<demand[t][i], 1>>,
                               IF with_lec
                               THEN Q(GetQtyPurchasedForMember(sol, i), sol.den)
                               ELSE <<0, 1>>,
                               <<supply[t][i], 1>>,
                               IF with_lec
                               THEN Q(GetQtySoldForMember(sol, i), sol.den)
                               ELSE <<0, 1>>))

ComputePricePerMember(i, with_lec) == PriceUpTo(i, with_lec, NumTimesteps)

\* The fields pydantic requires of an EnergyMetrics (models.py), and the
\* keywords _evaluate passes to it.
EnergyMetricsFields ==
    {"total_consumption", "total_grid_import", "self_consumption_volume",
     "trading_volume", "total_discharging_volume", "total_production",
     "total_grid_export", "total_charging_volume"}

EnergyMetricsKeywords ==
    {"total_production", "total_consumption", "total_grid_import",
     "total_grid_export"}

\* ECDataset._evaluate: getTradingNetwork() reads the class-level accumulator
\* and the two grid volumes; then the EnergyMetrics is built from four
\* volumes, which pydantic refuses when a required field is missing.  (The
\* layout positions of the graph are left out.)
Evaluate ==
    /\ pc = "market"
    /\ Len(marketSolutions) = NumTimesteps
    /\ results' = [results EXCEPT ![Len(results)] =
            [params  |-> @.params,
             outcome |-> IF EnergyMetricsFields \subseteq EnergyMetricsKeywords
                         THEN "SimulationResult" ELSE "ValidationError",
             trading_network   |-> overall_trading_network,
             grid_in           |-> GetGridPurchaseVolume,
             grid_out          |-> GetGridFeedInVolume,
             total_production  |-> GetProductionVolume,
             total_consumption |-> GetConsumptionVolume]]
    /\ pc' = "idle"
    /\ UNCHANGED <<supply, demand, marketSolutions, overall_trading_network,
                   data, ec, shifts, loader>>

Init ==
    /\ BatteryIdle
    /\ MarketIdle
    /\ \E pv \in PvFrames, load \in LoadFrames : data = [pv |-> pv, load |-> load]
    /\ ec = NoDataset
    /\ results = <<>>
    /\ shifts = {}
    /\ loader = NoLoader

Next ==
    \/ \E a \in RunArguments :
          RunSimulation(a.community_size, a.season, a.pv_percentage,
                        a.sd_percentage, a.with_battery)
              /\ UNCHANGED bvars
    \/ AdjustForBatteries /\ UNCHANGED bvars
    \/ AdjustForSmartDevices /\ UNCHANGED bvars
    \/ ClearTimestep /\ UNCHANGED <<bvars, pvars>>
    \/ Evaluate /\ UNCHANGED bvars

Spec == Init /\ [][Next]_vars

-----------------------------------------------------------------------------
(*     SpecShift: _adjust_for_smart_devices on arbitrary daily profiles    *)

\* Bound of the shifting harness: the number of load levels above zero.
ShiftLevels == 2

\* The step between load levels, 0.6 kWh: the first level lies between the
\* two shift quantities, the second above both.
ShiftStep == (6 * Unit) \div 10

\* The frames of the harness cover two days, the 15th and the 16th of June,
\* each sampled at the hours of DayHours.
DayHours == <<1, 9, 13, 17, 23>>
ShiftDates == <<(<<6, 15>>), (<<6, 16>>)>>
ShiftTimesteps == 0 .. Len(ShiftDates) * Len(DayHours) - 1
HourSlot(t) == (t % Len(DayHours)) + 1
ShiftIndex ==
    [t \in ShiftTimesteps |->
        [date |-> ShiftDates[(t \div Len(DayHours)) + 1], hour |-> DayHours[HourSlot(t)]]]

\* A participant's load of one day: nothing, or one level at one hour; the
\* same on both days.  The first two participants carry load, any further
\* one is a household that consumes nothing.  The last participant's PV
\* output of one day: nothing, or MaxPv at one hour.
DayProfiles(levels) ==
    {[k \in DOMAIN DayHours |-> IF k = h THEN l ELSE 0] :
        h \in DOMAIN DayHours, l \in levels}
ShiftLoadFrames ==
    {[t \in ShiftTimesteps |->
         [i \in Participants |-> IF i < 2 THEN prof[i][HourSlot(t)] ELSE 0]] :
        prof \in [{0, 1} ->
                     DayProfiles({l * ShiftStep : l \in 0 .. ShiftLevels})]}
ShiftPvFrames ==
    {[t \in ShiftTimesteps |->
         [i \in Participants |->
             IF i = NumParticipants - 1 THEN prof[HourSlot(t)] ELSE 0]] :
        prof \in DayProfiles({0, MaxPv * Unit})}

InitShift ==
    /\ BatteryIdle
    /\ data = NoData
    /\ results = <<>>
    /\ shifts = {}
    /\ loader = NoLoader
    /\ marketSolutions = <<>>
    /\ overall_trading_network = EmptyNetwork
    /\ pc = "smart_devices"
    /\ \E production \in ShiftPvFrames, consumption \in ShiftLoadFrames,
          smart_device_percentage \in {0, 50, 100} :
          /\ ec = ECDatasetInit(production, consumption, ShiftIndex,
                                smart_device_percentage, FALSE)
          /\ supply = ClippedDifference(production, consumption)
          /\ demand = ClippedDifference(consumption, production)

NextShift == AdjustForSmartDevices /\ UNCHANGED bvars

SpecShift == InitShift /\ [][NextShift]_vars

-----------------------------------------------------------------------------
(*   SpecLoader: DataLoader._create_database filling the load tables       *)

\* constants.py
APT_BLOCK_SIZE == 6

\* Bound of the loader harness: the number of entries of LOAD_DATA_DIR.
MaxFiles == 7

\* os.listdir(LOAD_DATA_DIR): an entry is a .csv file of one household, here
\* with its load of the one hour covered, or some other file.
Files == [csv : {FALSE}, load : {0}] \cup [csv : {TRUE}, load : {1, 2}]
Listings == UNION {[1 .. n -> Files] : n \in 0 .. MaxFiles}

\* One pass of "for idx, file in enumerate(os.listdir(LOAD_DATA_DIR))":
\* a .csv file's hourly sums are inserted with household_id = idx.
LoadFile ==
    /\ loader.pc = "files"
    /\ loader.idx < Len(loader.listing)
    /\ LET file == loader.listing[loader.idx + 1]
       IN  loader' =
             [loader EXCEPT
                !.idx = @ + 1,
                !.individual_household_load_table =
                    IF file.csv
                    THEN @ \cup {[time |-> 0, load |-> file.load,
                                  household_id |-> loader.idx]}
                    ELSE @]
    /\ UNCHANGED <<bvars, mvars, data, ec, results, shifts>>

\* SELECT time, SUM(load), FLOOR(household_id / APT_BLOCK_SIZE) AS id
\* FROM individual_household_load_table GROUP BY time, id
GroupedByBlock(table) ==
    {[time |-> g[1],
      load |-> LET rows == {r \in table : r.time = g[1]
                               /\ r.household_id \div APT_BLOCK_SIZE = g[2]}
               IN  SumOver([r \in rows |-> r.load], rows),
      id   |-> g[2]] :
        g \in {<<r.time, r.household_id \div APT_BLOCK_SIZE>> : r \in table}}

\* After the loop: the households are summed into buildings and the
\* per-household table is dropped.
AggregateLoad ==
    /\ loader.pc = "files"
    /\ loader.idx = Len(loader.listing)
    /\ loader' = [loader EXCEPT
                     !.pc = "loaded",
                     !.load_table =
                         GroupedByBlock(loader.individual_household_load_table),
                     !.individual_household_load_table = {}]
    /\ UNCHANGED <<bvars, mvars, data, ec, results, shifts>>

InitLoader ==
    /\ BatteryIdle
    /\ MarketIdle
    /\ data = NoData
    /\ ec = NoDataset
    /\ results = <<>>
    /\ shifts = {}
    /\ \E listing \in Listings :
          loader = [NoLoader EXCEPT !.pc = "files", !.listing = listing]

NextLoader == LoadFile \/ AggregateLoad

SpecLoader == InitLoader /\ [][NextLoader]_vars

-----------------------------------------------------------------------------
(*  SpecReduce: run_simulation from the pickled frames, and ECDataset built *)
(*  from arbitrary matrices                                                 *)

\* Bound of the reduction harness: the samples a frame has of one month and
\* hour (one per day).
MaxSamples == 2

\* The (month, hour) pairs the pickled frames may have samples of.
SampleSlots == {<<6, 0>>, <<6, 1>>, <<12, 0>>}

\* A pickled frame, transposed: column timestamp <<month, day, hour>> ->
\* household -> energy.  The PV frame and the load frame have their own
\* numbers of samples of every month and hour.
RawColumns(cnt) ==
    {c \in {<<s[1], d, s[2]>> : s \in SampleSlots, d \in 1 .. MaxSamples} :
        c[2] <= cnt[<<c[1], c[3]>>]}
RawPvFrames ==
    {[c \in RawColumns(cnt) |-> [i \in Participants |-> i * c[2] * Unit]] :
        cnt \in [SampleSlots -> 0 .. MaxSamples]}
RawLoadFrames ==
    {[c \in RawColumns(cnt) |-> [i \in Participants |-> c[2] * Unit]] :
        cnt \in [SampleSlots -> 0 .. MaxSamples]}

\* SEASON_MONTHS, in_season
SEASON_MONTHS(season) ==
    CASE season = "win" -> {12, 1, 2}
      [] season = "spr" -> {3, 4, 5}
      [] season = "sum" -> {6, 7, 8}
      [] season = "aut" -> {9, 10, 11}
InSeason(season, col) == col[1] \in SEASON_MONTHS(season)

\* pv_data.loc[:, [in_season(season_enum, col) for col in pv_data.columns]]
KeepSeason(frame, season) ==
    [c \in {c \in DOMAIN frame : InSeason(season, c)} |-> frame[c]]

\* the columns of one month and hour
HourCols(frame, month, hour) ==
    {c \in DOMAIN frame : c[1] = month /\ c[3] = hour}

\* Mutant: the hours run from 1, "for hour in range(1, 24)".
EmittedSlotsFromOne(pv, load) ==
    {s \in {c[1] : c \in DOMAIN pv} \X (1 .. 23) :
        HourCols(pv, s[1], s[2]) # {} /\ HourCols(load, s[1], s[2]) # {}}

\* The (month, hour) pairs the loops over sorted(months) and range(24) emit a
\* timestamp for: "if pv_hour_cols and load_hour_cols".
EmittedSlots(pv, load) ==
    {s \in {c[1] : c \in DOMAIN pv} \X (0 .. 23) :
        HourCols(pv, s[1], s[2]) # {} /\ HourCols(load, s[1], s[2]) # {}}

\* The emitted pairs in the order of the loops, and the timestamp of each:
\* pd.Timestamp(2024, month, 15, hour).
SlotSequence(slots) ==
    LET keys == InOrder({s[1] * 24 + s[2] : s \in slots})
    IN  [t \in 0 .. Len(keys) - 1 |->
            <<keys[t + 1] \div 24, keys[t + 1] % 24>>]
SlotIndex(slots) ==
    LET seq == SlotSequence(slots)
    IN  [t \in DOMAIN seq |-> [date |-> <<seq[t][1], 15>>, hour |-> seq[t][2]]]

\* frame[hour_cols].mean(axis=1) for every emitted pair, transposed:
\* timestep -> household -> energy
MonthlyMeans(frame, slots) ==
    LET seq == SlotSequence(slots)
    IN  [t \in DOMAIN seq |->
            LET cols == HourCols(frame, seq[t][1], seq[t][2])
            IN  [i \in Participants |->
                    SumOver([c \in cols |-> frame[c][i]], cols)
                        \div Cardinality(cols)]]

\* run_simulation as a whole, on the pickled frames in data, up to the call
\* of simulate(); the process makes one call.
RunSimulationFromPickles(community_size, season, pv_percentage, sd_percentage, with_battery) ==
    /\ pc = "idle"
    /\ results = <<>>
    /\ LET started == [NoResult EXCEPT
                          !.params = Arguments(community_size, season, pv_percentage,
                                               sd_percentage, with_battery)]
       IN  IF ~ParamsValid(community_size, season, pv_percentage, sd_percentage)
           THEN /\ results' = Append(results, [started EXCEPT !.outcome = "ValueError"])
                /\ UNCHANGED <<supply, demand, marketSolutions, pc, ec, shifts>>
           ELSE LET pv_data     == ZeroMembersWithoutPv(KeepSeason(data.pv, season),
                                                        pv_percentage)
                    load_data   == KeepSeason(data.load, season)
                    slots       == EmittedSlots(pv_data, load_data)
                    production  == MonthlyMeans(pv_data, slots)
                    consumption == MonthlyMeans(load_data, slots)
                IN  IF ~ECDatasetAsserts(production, consumption)
                    THEN /\ results' = Append(results,
                                [started EXCEPT !.outcome = "AssertionError"])
                         /\ UNCHANGED <<supply, demand, marketSolutions, pc, ec,
                                        shifts>>
                    ELSE /\ ec' = ECDatasetInit(production, consumption,
                                                SlotIndex(slots), sd_percentage,
                                                with_battery)
                         /\ shifts' = {}
                         /\ supply' = ClippedDifference(production, consumption)
                         /\ demand' = ClippedDifference(consumption, production)
                         /\ marketSolutions' = <<>>
                         /\ pc' = "simulate"
                         /\ results' = Append(results,
                                [started EXCEPT !.outcome = "running"])
    /\ UNCHANGED <<overall_trading_network, data, loader>>

\* ECDataset(production, consumption, 1) built by a caller of its own, which
\* then calls simulate(); the harness hands it each frame's own monthly
\* means, matrices with as many timesteps as the frame has months and hours.
ConstructDataset(production, consumption) ==
    /\ pc = "idle"
    /\ results = <<>>
    /\ IF ~ECDatasetAsserts(production, consumption)
       THEN /\ results' = Append(results, [NoResult EXCEPT !.outcome = "AssertionError"])
            /\ UNCHANGED <<supply, demand, marketSolutions, pc, ec, shifts>>
       ELSE /\ ec' = ECDatasetInit(production, consumption,
                                   [t \in DOMAIN production |->
                                       [date |-> <<6, 15>>, hour |-> t]],
                                   0, FALSE)
            /\ shifts' = {}
            /\ supply' = ClippedDifference(production, consumption)
            /\ demand' = ClippedDifference(consumption, production)
            /\ marketSolutions' = <<>>
            /\ pc' = "simulate"
            /\ results' = Append(results, [NoResult EXCEPT !.outcome = "running"])
    /\ UNCHANGED <<overall_trading_network, data, loader>>

InitReduce ==
    /\ BatteryIdle
    /\ MarketIdle
    /\ \E pv \in RawPvFrames, load \in RawLoadFrames :
          data = [pv |-> pv, load |-> load]
    /\ ec = NoDataset
    /\ results = <<>>
    /\ shifts = {}
    /\ loader = NoLoader

NextReduce ==
    \/ \E season \in {"sum", "win", "xyz"} :
          RunSimulationFromPickles(5, season, 100, 0, FALSE) /\ UNCHANGED bvars
    \/ ConstructDataset(MonthlyMeans(data.pv, EmittedSlots(data.pv, data.pv)),
                        MonthlyMeans(data.load, EmittedSlots(data.load, data.load)))
          /\ UNCHANGED bvars
    \/ AdjustForBatteries /\ UNCHANGED bvars
    \/ AdjustForSmartDevices /\ UNCHANGED bvars
    \/ ClearTimestep /\ UNCHANGED <<bvars, pvars>>
    \/ Evaluate /\ UNCHANGED bvars

SpecReduce == InitReduce /\ [][NextReduce]_vars

-----------------------------------------------------------------------------
(*                      Properties of the Battery                          *)

Constructed == battery # NoBattery

\* The quantities of spec section 4.1, written out from the constants.
SpecMinAllowed(b) == (DISCHARGE_THRESHOLD * b.capacity) \div PerMille
SpecMaxAllowed(b) == (CHARGE_THRESHOLD * b.capacity) \div PerMille
SpecRateLimit(b) == (C_RATE * b.timestep_duration * b.capacity) \div PerMille
SpecLossy(x) == (x * (PerMille - CONVERSION_LOSS)) \div PerMille
SpecGross(x) == (x * PerMille) \div (PerMille - CONVERSION_LOSS)

\* C6: after construction and after every charge() or discharge() the
\* current charge lies within
\* [DISCHARGE_THRESHOLD*capacity - EPS, CHARGE_THRESHOLD*capacity + EPS].
C6_ChargeWithinThresholds ==
    Constructed =>
        /\ battery.current_cap >= SpecMinAllowed(battery) - EPS
        /\ battery.current_cap <= SpecMaxAllowed(battery) + EPS

\* C7: charge(amount) draws input = min(amount, min(headroom, rateLimit) /
\* (1 - CONVERSION_LOSS)), raises the charge by exactly
\* input * (1 - CONVERSION_LOSS) before bookkeeping and returns input; so
\* charge(0) stores nothing and no charge lowers the pre-bookkeeping charge.
C7_ChargeStoresLossyShare ==
    call.op = "charge" =>
        LET headroom == Max(0, SpecMaxAllowed(battery) - call.before)
            input    == Min(call.amount,
                            SpecGross(Min(headroom, SpecRateLimit(battery))))
        IN  /\ call.ret = input
            /\ call.pre - call.before = SpecLossy(input)
            /\ call.pre >= call.before

\* C8: discharge(amount) delivers output = min(amount, min(available,
\* rateLimit) * (1 - CONVERSION_LOSS)) with available = max(0, charge -
\* minAllowed), removes exactly output / (1 - CONVERSION_LOSS) before
\* bookkeeping and returns output; a discharge that starts at or above
\* minAllowed leaves the pre-bookkeeping charge at or above minAllowed.
C8_DischargeRemovesGrossOutput ==
    call.op = "discharge" =>
        LET available == Max(0, call.before - SpecMinAllowed(battery))
            output    == Min(call.amount,
                             SpecLossy(Min(available, SpecRateLimit(battery))))
        IN  /\ call.ret = output
            /\ call.before - call.pre = SpecGross(output)
            /\ (call.before >= SpecMinAllowed(battery)
                    => call.pre >= SpecMinAllowed(battery))

\* A discharge cut short by the available charge, delivering something.
C8_Witness ==
    /\ call.op = "discharge"
    /\ call.ret > 0
    /\ call.ret < call.amount
    /\ call.before >= SpecMinAllowed(battery)

\* charge(x) followed immediately by discharge(r), r the value charge returned.
RoundTrip ==
    /\ call.op = "discharge"
    /\ prev.op = "charge"
    /\ call.amount = prev.ret

\* C9 as stated: the round trip returns at most x, and strictly less than x
\* whenever x > 0 and CONVERSION_LOSS > 0, for every battery state.
C9_RoundTripStrictlyLossy ==
    RoundTrip =>
        /\ call.ret <= prev.amount
        /\ (prev.amount > 0 /\ CONVERSION_LOSS > 0 => call.ret < prev.amount)

\* C9 amended: the round trip returns at most x (and at most r); it returns
\* strictly less than x when x > 0 and the battery held no charge above
\* minAllowed before the charge() call.
C9_RoundTripNeverGains ==
    RoundTrip =>
        /\ call.ret <= prev.ret
        /\ call.ret <= prev.amount
        /\ (prev.amount > 0 /\ prev.before <= SpecMinAllowed(battery)
                => call.ret < prev.amount)

\* A round trip from the minimum charge that delivers part of x back.
C9_Witness ==
    /\ RoundTrip
    /\ prev.amount > 0
    /\ prev.before <= SpecMinAllowed(battery)
    /\ call.ret > 0
    /\ call.ret < prev.amount

\* C10: construction with negative capacity fails; with capacity >= 0
\* (0 included) charge() and discharge() return a value between 0 and the
\* requested amount.  (Neither method has a raising path: their only
\* division is by the constant 1 - CONVERSION_LOSS.)
C10_OnlyNegativeCapacityFails ==
    /\ PerMille - CONVERSION_LOSS # 0
    /\ (call.op = "AssertionError" => call.amount < 0 /\ ~Constructed)
    /\ (call.op = "init" => call.amount >= 0 /\ Constructed)
    /\ (Constructed => battery.capacity >= 0)
    /\ (call.op \in {"charge", "discharge"} =>
            /\ Constructed
            /\ 0 <= call.ret
            /\ call.ret <= call.amount)

\* A battery of capacity 0 asked to charge a positive amount.
C10_Witness ==
    /\ Constructed
    /\ battery.capacity = 0
    /\ call.op = "charge"
    /\ call.amount > 0
    /\ call.ret = 0

-----------------------------------------------------------------------------
(*                   Properties of one MarketSolution                      *)

\* Timestep t (counted from 0) has been cleared.
ClearedSteps == {t \in DOMAIN supply : t < Len(marketSolutions)}

SolutionAt(t) == marketSolutions[t + 1]

SoldTotal(t) ==
    SumOver([i \in DOMAIN supply[t] |-> GetQtySoldForMember(SolutionAt(t), i)],
            DOMAIN supply[t])

PurchasedTotal(t) ==
    SumOver([i \in DOMAIN supply[t] |-> GetQtyPurchasedForMember(SolutionAt(t), i)],
            DOMAIN supply[t])

OneSided(t) == \A i \in DOMAIN supply[t] : supply[t][i] = 0 \/ demand[t][i] = 0

\* C3: in every timestep's MarketSolution the quantities sold, summed over
\* the participants, equal the quantities purchased, summed over the
\* participants.
C3_SoldEqualsPurchased ==
    \A t \in ClearedSteps : SoldTotal(t) = PurchasedTotal(t)

\* A cleared timestep with two sellers and two buyers that traded.
C3_Witness ==
    \E t \in ClearedSteps :
        /\ SoldTotal(t) > 0
        /\ Cardinality({i \in DOMAIN supply[t] :
                            GetQtySoldForMember(SolutionAt(t), i) > 0}) >= 2
        /\ Cardinality({i \in DOMAIN supply[t] :
                            GetQtyPurchasedForMember(SolutionAt(t), i) > 0}) >= 2

C5_MaxFlowIsSmallerSide ==
    \A t \in ClearedSteps :
        OneSided(t) =>
            LET sol == SolutionAt(t)
                net == sol.N_fair
            IN  /\ FlowValue(sol.sellMap)
                     = Min(SumOver(net.cap, SourceEdges(net)),
                           SumOver(net.cap, SinkEdges(net)))
                /\ FlowValue(sol.sellMap)
                     = Min(SumRow(supply[t]), SumRow(demand[t])) * sol.den

\* A timestep with less supply than demand, two sellers, two buyers and more
\* than one maximum flow.
C5_Witness ==
    \E t \in ClearedSteps :
        /\ OneSided(t)
        /\ 0 < SumRow(supply[t])
        /\ SumRow(supply[t]) < SumRow(demand[t])
        /\ Cardinality(SourceEdges(SolutionAt(t).N_fair)) >= 2
        /\ Cardinality(SinkEdges(SolutionAt(t).N_fair)) >= 2
        /\ Cardinality(MaximumFlows(SolutionAt(t).N_fair)) > 1

\* C11: the fairness scaling never divides by zero, whatever non-negative
\* supply and demand rows it is given (all-zero supply, all-zero demand or
\* both included): the network of every timestep is built, with nonzero
\* denominators; when total demand is 0 the demand-side
\* ratio is 1; and the fulfilled-demand and sold-supply ratios of the
\* evaluation are 0 when their denominator is 0.
C11_ScalingNeverDividesByZero ==
    /\ \A t \in DOMAIN supply :
          LET r   == FairRatios(SumRow(supply[t]), SumRow(demand[t]))
              net == ConstructFairNetwork(supply[t], demand[t])
          IN  /\ r.supply_ratio[2] # 0
              /\ r.demand_ratio[2] # 0
              /\ net.den > 0
              /\ SumRow(demand[t]) = 0 => r.demand_ratio = <<1, 1>>
    /\ \A t \in ClearedSteps : SolutionAt(t).den > 0
    /\ Len(marketSolutions) = NumTimesteps =>
          /\ RatioFulfilledDemand[2] # 0
          /\ RatioSoldSupply[2] # 0
          /\ GetDemandVolume = 0 => RatioFulfilledDemand = <<0, 1>>
          /\ GetSupplyVolumeImprecise = 0 => RatioSoldSupply = <<0, 1>>

\* A cleared timestep in which nobody offers and nobody asks for energy.
C11_Witness ==
    \E t \in ClearedSteps :
        /\ SumRow(supply[t]) = 0
        /\ SumRow(demand[t]) = 0
        /\ Len(marketSolutions) = NumTimesteps
        /\ SolutionAt(t).tradingVolume = 0

-----------------------------------------------------------------------------
(*                 Properties of successive simulation runs                *)

\* The trades realized in the timesteps the current ECDataset has cleared.
RECURSIVE OwnTradesUpTo(_, _)
OwnTradesUpTo(sols, k) ==
    IF k = 0 THEN EmptyNetwork
    ELSE AddFlowToTotalNetwork(OwnTradesUpTo(sols, k - 1),
                               sols[k].sellMap, sols[k].den)

\* run k reached _evaluate
Evaluated(k) == results[k].outcome \in {"SimulationResult", "ValidationError"}

\* C1: the trading-network accumulator is empty at the start of each
\* simulate() call, so the network a run reports when it evaluates holds
\* only the trades of that run's own timesteps.
C1_AccumulatorEmptyAtSimulate ==
    /\ (pc = "simulate" => overall_trading_network = EmptyNetwork)
    /\ (pc = "market" /\ Len(marketSolutions) = NumTimesteps =>
            overall_trading_network
                = OwnTradesUpTo(marketSolutions, Len(marketSolutions)))

\* C2: two runs with identical inputs, no smart devices and no battery
\* compute identical results, trading-network edge weights included.
C2_IdenticalRunsIdenticalResults ==
    \A a, b \in DOMAIN results :
        /\ Evaluated(a) /\ Evaluated(b)
        /\ results[a].params = results[b].params
        /\ results[a].params.sd_percentage = 0
        /\ results[a].params.with_battery = FALSE
        => results[a] = results[b]

-----------------------------------------------------------------------------
(*                     Properties of demand shifting                       *)

\* C12: with a smart-device percentage of 0, _adjust_for_smart_devices
\* changes nothing: consumption, production, supply and demand are what they
\* were before the call, battery adjustments already applied included.
C12_ZeroPercentageShiftsNothing ==
    [][(pc = "smart_devices" /\ ec.smart_device_percentage = 0) =>
          /\ ec'.consumption = ec.consumption
          /\ ec'.production = ec.production
          /\ supply' = supply
          /\ demand' = demand]_vars

\* The shifting step has just returned on a dataset with percentage 0 whose
\* batteries had charged and discharged: supply and demand still carry the
\* battery adjustments.
C12_Witness ==
    /\ pc = "market"
    /\ marketSolutions = <<>>
    /\ ec.smart_device_percentage = 0
    /\ ec.with_battery
    /\ GetChargeVolume > 0
    /\ GetDischargeVolume > 0
    /\ supply # ClippedDifference(ec.production, ec.consumption)
    /\ demand # ClippedDifference(ec.consumption, ec.production)

\* One participant's consumption over the rows of one date.
DayTotal(frame, index, user, day) ==
    SumOver([t \in DOMAIN frame |-> frame[t][user]], RowsOfDay(index, day))

\* C13: demand shifting conserves energy per participant and per calendar
\* day: for every participant and every day, the consumption summed over
\* the day is the same after _adjust_for_smart_devices as before it.
C13_ShiftingConservesDailyLoad ==
    [][pc = "smart_devices" =>
          \A day \in DatesOf(ec.index) : \A user \in Participants :
              DayTotal(ec'.consumption, ec.index, user, day)
                  = DayTotal(ec.consumption, ec.index, user, day)]_vars

\* Shifting has moved load on both days, on one of them to another hour.
C13_Witness ==
    /\ pc = "market"
    /\ \A day \in DatesOf(ec.index) : \E sh \in shifts : sh.date = day
    /\ \E sh \in shifts : sh.source # sh.target

InWindow(index, t) ==
    WindowStart <= index[t].hour /\ index[t].hour <= WindowEnd

\* C14: shifting never moves load outside the 08:00-22:00 window: of every
\* shift made, the source hour and the destination hour both lie in the
\* window, whatever the production and consumption profiles (a day without
\* any production included).
C14_ShiftsStayInWindow ==
    \A sh \in shifts :
        InWindow(ec.index, sh.source) /\ InWindow(ec.index, sh.target)

\* C15: a shift is made only when the participant's load at the source hour
\* is at least the shift quantity, so no entry of the consumption matrix
\* ever becomes negative.
C15_ShiftsNeverOverdraw ==
    /\ \A sh \in shifts : sh.before >= sh.quantity
    /\ \A t \in DOMAIN ec.consumption : \A i \in DOMAIN ec.consumption[t] :
          ec.consumption[t][i] >= 0

\* A participant whose load at the peak hour was too small for the daily
\* shift and large enough for the shift of every third day, which was made.
C15_Witness ==
    /\ pc = "market"
    /\ \E sh \in shifts :
          /\ sh.quantity = shift_3day
          /\ sh.before < shift_daily
          /\ ec.consumption[sh.source][sh.user] < shift_3day

-----------------------------------------------------------------------------
(*                    Properties of one run_simulation call                *)

\* The call in progress, and whether one is.
CurrentRun == results[Len(results)]
Running == pc \in {"simulate", "smart_devices", "market"}

\* x <= y for fractions
LeQ(x, y) == x[1] * y[2] <= y[1] * x[2]

\* C16: with a PV percentage of 0 the supply matrix is zero everywhere,
\* every MarketSolution has tradingVolume 0, the self-consumption reported
\* is 0, and no edge is added to the trading-network accumulator.
C16_NoPvNoTrade ==
    /\ [](Running /\ CurrentRun.params.pv_percentage = 0 =>
             /\ \A t \in DOMAIN supply : \A i \in DOMAIN supply[t] : supply[t][i] = 0
             /\ \A k \in DOMAIN marketSolutions : marketSolutions[k].tradingVolume = 0
             /\ GetSelfConsumptionVolume = 0
             /\ GetTradingVolume = <<0, 1>>)
    /\ [][Running /\ CurrentRun.params.pv_percentage = 0 =>
             overall_trading_network' = overall_trading_network]_vars

\* A run without PV, with batteries, has been evaluated; its members asked
\* for energy in every timestep, and an earlier run had traded.
C16_Witness ==
    /\ Len(results) = 2
    /\ pc = "idle"
    /\ Evaluated(2)
    /\ results[2].params.pv_percentage = 0
    /\ results[2].params.with_battery
    /\ results[2].total_consumption > 0
    /\ results[2].total_production = 0
    /\ Len(marketSolutions) = NumTimesteps
    /\ overall_trading_network # EmptyNetwork

SpecArgumentsValid(a) ==
    /\ a.community_size \in 5 .. 100
    /\ a.pv_percentage \in 0 .. 100
    /\ a.sd_percentage \in 0 .. 100
    /\ a.season \in {"sum", "win", "aut", "spr"}

\* C19: a community size outside 5..100, a PV or smart-device percentage
\* outside 0..100 or a season other than sum, win, aut, spr makes
\* run_simulation fail with a validation error before any simulation work:
\* no ECDataset is built, no MarketSolution is created and the accumulator
\* is left as it was.
C19_InvalidArgumentsRejected ==
    [][(Len(results') = Len(results) + 1
          /\ ~SpecArgumentsValid(results'[Len(results')].params)) =>
            /\ results'[Len(results')].outcome = "ValueError"
            /\ pc' = "idle"
            /\ UNCHANGED <<ec, supply, demand, marketSolutions,
                           overall_trading_network>>]_vars

\* A call with too large a community has failed after a run that traded:
\* that run's dataset, solutions and accumulated network are still there.
C19_Witness ==
    /\ Len(results) = 2
    /\ Evaluated(1)
    /\ results[2].outcome = "ValueError"
    /\ results[2].params.community_size > 100
    /\ pc = "idle"
    /\ ec # NoDataset
    /\ Len(marketSolutions) = NumTimesteps
    /\ overall_trading_network # EmptyNetwork

\* A fraction summed over a set.
RECURSIVE SumQ(_, _)
SumQ(f, S) ==
    IF S = {} THEN <<0, 1>>
    ELSE LET x == CHOOSE y \in S : TRUE IN AddQ(f[x], SumQ(f, S \ {x}))

\* The cost the specification gives participant i: per timestep
\*   (demand - purchase) * gridBuy + purchase * p2p
\*     - (supply - sale) * gridSell - sale * p2p,
\* purchases and sales on the market being 0 without trading.
SpecCost(i, trading) ==
    SumQ([t \in DOMAIN supply |->
            LET sol      == SolutionAt(t)
                purchase == IF trading
                            THEN Q(GetQtyPurchasedForMember(sol, i), sol.den)
                            ELSE <<0, 1>>
                sale     == IF trading
                            THEN Q(GetQtySoldForMember(sol, i), sol.den)
                            ELSE <<0, 1>>
            IN  AddQ(AddQ(<<demand[t][i] * GRID_BUY_PRICE, 1>>,
                          Q(purchase[1] * (P2P_PRICE - GRID_BUY_PRICE), purchase[2])),
                     AddQ(<<0 - supply[t][i] * GRID_SELL_PRICE, 1>>,
                          Q(sale[1] * (GRID_SELL_PRICE - P2P_PRICE), sale[2])))],
         DOMAIN supply)

TotalCost(with_lec) ==
    SumQ([i \in DOMAIN supply[0] |-> ComputePricePerMember(i, with_lec)],
         DOMAIN supply[0])

\* C18: computePricePerMember gives every participant the cost of the
\* specification's formula, with and without trading; and, the grid sell
\* price being at most the P2P price and the P2P price at most the grid buy
\* price, the community's total cost with trading is at most its total cost
\* without, in every run.
C18_CostFormulaAndTradingGain ==
    (pc = "market" /\ Len(marketSolutions) = NumTimesteps) =>
        /\ \A i \in DOMAIN supply[0] :
              /\ ComputePricePerMember(i, TRUE) = SpecCost(i, TRUE)
              /\ ComputePricePerMember(i, FALSE) = SpecCost(i, FALSE)
        /\ (GRID_SELL_PRICE <= P2P_PRICE /\ P2P_PRICE <= GRID_BUY_PRICE) =>
              LeQ(TotalCost(TRUE), TotalCost(FALSE))

\* Every timestep of a run with batteries is cleared; the batteries charged,
\* energy was asked for in every timestep and traded in one, and trading
\* made the community's energy cheaper.
C18_Witness ==
    /\ pc = "market"
    /\ Len(marketSolutions) = NumTimesteps
    /\ ec.with_battery
    /\ GetChargeVolume > 0
    /\ \A t \in DOMAIN demand : SumRow(demand[t]) > 0
    /\ \E k \in DOMAIN marketSolutions : marketSolutions[k].tradingVolume > 0
    /\ TotalCost(TRUE) # TotalCost(FALSE)

-----------------------------------------------------------------------------
(*                      Properties of the data loader                      *)

\* The households of the listing, and those summed into building b.
Households == {k - 1 : k \in {k \in DOMAIN loader.listing : loader.listing[k].csv}}
HouseholdsOf(b) == {h \in Households : h \div APT_BLOCK_SIZE = b}

\* C20: aggregating households into buildings fails with a fatal error
\* whenever the number of households is not divisible by APT_BLOCK_SIZE; no
\* building with fewer than APT_BLOCK_SIZE households is ever produced.
C20_IndivisibleCountIsFatal ==
    /\ Cardinality(Households) % APT_BLOCK_SIZE # 0 => loader.pc # "loaded"
    /\ \A row \in loader.load_table :
          Cardinality(HouseholdsOf(row.id)) = APT_BLOCK_SIZE

-----------------------------------------------------------------------------
(*                  Properties of the whole pipeline                       *)

\* C21: a call of run_simulation whose arguments are valid (community size
\* 5..100, season sum, win, aut or spr, percentages 0..100, either battery
\* setting) runs to completion and returns a SimulationResult: it never ends
\* in an exception.
C21_ValidRunsReturnResult ==
    \A k \in DOMAIN results :
        SpecArgumentsValid(results[k].params) =>
            results[k].outcome \in {"running", "SimulationResult"}

\* C22: in simulate() the demand shifting runs before the battery step and
\* the battery step before the market: with batteries enabled, whatever the
\* smart-device percentage, the supply and demand the market clears are the
\* supply and demand of the shifted consumption, less what each
\* participant's battery charged or discharged in each timestep.
C22_MarketClearsShiftedThenBattery ==
    (pc = "market" /\ ec.with_battery) =>
        LET shifted == AdjustedForBatteries(
                           ClippedDifference(ec.production, ec.consumption),
                           ClippedDifference(ec.consumption, ec.production))
        IN  /\ supply = shifted.supply
            /\ demand = shifted.demand

\* The production each participant consumes itself, summed over timesteps
\* and participants: min(production, consumption).
DirectUseVolume ==
    SumFrame([t \in DOMAIN ec.production |->
                 [i \in DOMAIN ec.production[t] |->
                     Min(ec.production[t][i], ec.consumption[t][i])]],
             DOMAIN ec.production)

\* C23: the self-consumption volume reported is the production consumed
\* directly by its producer, the sum of min(production, consumption), with
\* and without batteries; what a battery charged is not part of it, and the
\* grid export subtracts it once.
C23_SelfConsumptionIsDirectUse ==
    (pc = "market" /\ Len(marketSolutions) = NumTimesteps) =>
        /\ GetSelfConsumptionVolume = DirectUseVolume
        /\ GetGridFeedInVolume =
              MaxZeroMinus(GetProductionVolume - DirectUseVolume - GetChargeVolume,
                           GetTradingVolume)

-----------------------------------------------------------------------------
(*               Properties of the trading-network accumulator             *)

\* The flow the cleared timesteps put on the edge e, summed.
PairFlow(e) ==
    SumQ([k \in DOMAIN marketSolutions |->
             IF e \in DOMAIN marketSolutions[k].sellMap
             THEN Q(marketSolutions[k].sellMap[e], marketSolutions[k].den)
             ELSE <<0, 1>>],
         DOMAIN marketSolutions)

MemberNodes == {GetNode(i) : i \in Participants}

\* C24: in the first run of a process, which starts from an empty
\* accumulator, after any number of cleared timesteps the weight accumulated
\* for a (seller, buyer) pair is the sum of the flows of those timesteps on
\* that edge; no edge touching the source or the sink is recorded; and the
\* weights add up to the sum of the timesteps' maximum-flow values.
C24_AccumulatorSumsPairFlows ==
    (Len(results) = 1 /\ pc = "market") =>
        /\ \A u, v \in MemberNodes :
              IF PairFlow(<<u, v>>) = <<0, 1>>
              THEN <<u, v>> \notin DOMAIN overall_trading_network
              ELSE /\ <<u, v>> \in DOMAIN overall_trading_network
                   /\ overall_trading_network[<<u, v>>] = PairFlow(<<u, v>>)
        /\ DOMAIN overall_trading_network \subseteq MemberNodes \X MemberNodes
        /\ SumQ(overall_trading_network, DOMAIN overall_trading_network)
              = SumQ([k \in DOMAIN marketSolutions |->
                         Q(FlowValue(marketSolutions[k].sellMap),
                           marketSolutions[k].den)],
                     DOMAIN marketSolutions)

\* The first run has cleared all its timesteps, and one seller sold to the
\* same buyer in more than one of them.
C24_Witness ==
    /\ Len(results) = 1
    /\ pc = "market"
    /\ Len(marketSolutions) = NumTimesteps
    /\ \E e \in DOMAIN overall_trading_network :
          Cardinality({k \in DOMAIN marketSolutions :
                          /\ e \in DOMAIN marketSolutions[k].sellMap
                          /\ marketSolutions[k].sellMap[e] > 0}) > 1

-----------------------------------------------------------------------------
(*                 Properties of the supply and demand matrices            *)

\* C25: in every state of a run, after the construction of the ECDataset,
\* after the battery step and after the demand shifting, the supply and the
\* demand of every (timestep, participant) are non-negative and at most one
\* of the two is nonzero.
C25_SupplyDemandOneSided ==
    Running =>
        \A t \in DOMAIN supply : \A i \in DOMAIN supply[t] :
            /\ supply[t][i] >= 0
            /\ demand[t][i] >= 0
            /\ supply[t][i] = 0 \/ demand[t][i] = 0

\* A run with batteries has passed the battery step and the shifting step;
\* the batteries charged and discharged, so that supply and demand are no
\* longer the clipped differences, and a deficit is still left for the
\* market.
C25_Witness ==
    /\ pc = "market"
    /\ ec.with_battery
    /\ GetChargeVolume > 0
    /\ GetDischargeVolume > 0
    /\ supply # ClippedDifference(ec.production, ec.consumption)
    /\ demand # ClippedDifference(ec.consumption, ec.production)
    /\ \E t \in DOMAIN demand : \E i \in DOMAIN demand[t] : demand[t][i] > 0

-----------------------------------------------------------------------------
(*                 Properties of the battery bookkeeping                   *)

\* One round of bookkeeping on a charge: the clamp into [0, capacity], then
\* the factor 1 - (1 - RETENTION_RATE) * timestepDuration.
Bookkept(b, charge) ==
    (Min(b.capacity, Max(0, charge))
        * (PerMille - (PerMille - RETENTION_RATE) * b.timestep_duration))
      \div PerMille

\* C26: the bookkeeping is applied exactly once in every charge() and
\* discharge() call and at no other time: the charge a call leaves is one
\* round of bookkeeping on the charge the call computed; reset() leaves the
\* minimum charge untouched by it; and one pass of the battery step makes
\* at most one call on the participant's battery, and none, leaving the
\* battery as it was, when the participant's supply and demand are both zero.
C26_BookkeepingOncePerCall ==
    [][nops' = nops + 1 =>
          /\ call'.before = battery.current_cap
          /\ call'.op \in {"charge", "discharge"} =>
                battery'.current_cap = Bookkept(battery, call'.pre)
          /\ call'.op = "reset" =>
                battery'.current_cap = (DISCHARGE_THRESHOLD * battery.capacity) \div PerMille
          /\ call'.op = "skip" => battery' = battery]_vars

\* A pass of the battery step has just skipped a battery that an earlier
\* charge had filled above its minimum: its charge has not decayed.
C26_Witness ==
    /\ call.op = "skip"
    /\ prev.op = "charge"
    /\ prev.ret > 0
    /\ battery.current_cap > MinAllowedCharge(battery)
    /\ battery.current_cap > Bookkept(battery, battery.current_cap)

-----------------------------------------------------------------------------
(*          Properties of the matrices handed to the market stage          *)

\* The (month, hour) pairs of a season that both pickled frames have a
\* sample of.
SharedSlots(season) ==
    {s \in SEASON_MONTHS(season) \X (0 .. 23) :
        /\ \E c \in DOMAIN data.pv : c[1] = s[1] /\ c[3] = s[2]
        /\ \E c \in DOMAIN data.load : c[1] = s[1] /\ c[3] = s[2]}

\* C27: the production and consumption matrices of a run have the same
\* shape and the same timestep axis, which is also that of supply and
\* demand; the reduction to monthly hours emits a timestep for a
\* (month, hour) pair only when both frames have samples of it (and then it
\* does); and an ECDataset built from matrices of unequal shape fails with
\* an assertion error before any supply or demand is computed.
C27_MatricesShareShapeAndAxis ==
    /\ [](Running =>
            /\ DOMAIN ec.production = DOMAIN ec.consumption
            /\ \A t \in DOMAIN ec.production :
                  DOMAIN ec.production[t] = DOMAIN ec.consumption[t]
            /\ DOMAIN ec.index = DOMAIN ec.production
            /\ DOMAIN supply = DOMAIN ec.production
            /\ DOMAIN demand = DOMAIN ec.production
            /\ CurrentRun.params.season \in SEASON_MAP =>
                  {<<ec.index[t].date[1], ec.index[t].hour>> : t \in DOMAIN ec.index}
                      = SharedSlots(CurrentRun.params.season))
    /\ [][(results' # results /\ results'[Len(results')].outcome = "AssertionError")
             => UNCHANGED <<ec, supply, demand, marketSolutions>>]_vars

\* A summer run has reached the market with one timestep, although the
\* load frame has samples of a second summer hour, which the PV frame has
\* none of, and both frames have winter samples.
C27_Witness ==
    /\ pc = "market"
    /\ CurrentRun.params.season = "sum"
    /\ DOMAIN ec.production # {}
    /\ \E s \in SampleSlots :
          /\ s[1] \in SEASON_MONTHS("sum")
          /\ HourCols(data.pv, s[1], s[2]) = {}
          /\ HourCols(data.load, s[1], s[2]) # {}
    /\ \E s \in SampleSlots :
          /\ s[1] \in SEASON_MONTHS("win")
          /\ HourCols(data.pv, s[1], s[2]) # {}
          /\ HourCols(data.load, s[1], s[2]) # {}

-----------------------------------------------------------------------------
(*                  Properties of the list of solutions                    *)

\* Entry k of marketSolutions (counted from 1) was built from the supply and
\* demand rows of timestep k - 1.
BuiltFromRow(k) ==
    LET sol == marketSolutions[k]
    IN  /\ sol.supplyVolume = SumRow(supply[k - 1])
        /\ sol.N_fair = ConstructFairNetwork(supply[k - 1], demand[k - 1])
        /\ IsFlow(sol.N_fair, sol.sellMap)
        /\ \A i \in DOMAIN supply[k - 1] :
              /\ GetQtySoldForMember(sol, i) > 0 => supply[k - 1][i] > 0
              /\ GetQtyPurchasedForMember(sol, i) > 0 => demand[k - 1][i] > 0

\* C28: while simulate() runs, the solutions appended so far are those of
\* the first timesteps, in order; after the call marketSolutions holds
\* exactly numTimesteps entries, and entry t was built from the supply and
\* demand rows of timestep t, the rows the cost and the per-member queries
\* pair it with.
C28_SolutionsMatchTimesteps ==
    /\ (pc = "market" \/ (pc = "idle" /\ ec # NoDataset)) =>
          /\ Len(marketSolutions) <= NumTimesteps
          /\ \A k \in DOMAIN marketSolutions : BuiltFromRow(k)
    /\ (pc = "idle" /\ ec # NoDataset) => Len(marketSolutions) = NumTimesteps

\* A run has returned whose timesteps had different sellers: the fair
\* networks of its first two solutions differ, and both carry trades.
C28_Witness ==
    /\ pc = "idle"
    /\ ec # NoDataset
    /\ Len(marketSolutions) >= 2
    /\ marketSolutions[1].N_fair # marketSolutions[2].N_fair
    /\ marketSolutions[1].tradingVolume > 0
    /\ marketSolutions[2].tradingVolume > 0

-----------------------------------------------------------------------------
(*              Properties of the per-participant quantities               *)

EdgesAdded ==
    {e \in DOMAIN overall_trading_network' :
        e \notin DOMAIN overall_trading_network
            \/ overall_trading_network'[e] # overall_trading_network[e]}

\* C30: every edge (u, v) of the trading-network accumulator has a strictly
\* positive weight and u # v, neither u nor v is the source or the sink, and
\* the edge was added, or added to, while clearing a timestep in which u had
\* positive supply and v had positive demand: no participant trades with
\* itself.
C30_AccumulatorEdgesAreTrades ==
    /\ [](\A e \in DOMAIN overall_trading_network :
             /\ overall_trading_network[e][1] > 0
             /\ overall_trading_network[e][2] > 0
             /\ e[1] # e[2]
             /\ {e[1], e[2]} \cap {SOURCE, TARGET} = {})
    /\ [][\A e \in EdgesAdded :
             /\ pc = "market"
             /\ Len(marketSolutions) < NumTimesteps
             /\ \E i, j \in DOMAIN supply[Len(marketSolutions)] :
                   /\ e = <<GetNode(i), GetNode(j)>>
                   /\ i # j
                   /\ supply[Len(marketSolutions)][i] > 0
                   /\ demand[Len(marketSolutions)][j] > 0]_vars

\* A cleared timestep has put several edges into the accumulator, from more
\* than one seller and to more than one buyer.
C30_Witness ==
    /\ marketSolutions # <<>>
    /\ Cardinality({e[1] : e \in DOMAIN overall_trading_network}) >= 2
    /\ Cardinality({e[2] : e \in DOMAIN overall_trading_network}) >= 2
    /\ Cardinality(DOMAIN overall_trading_network) >= 3

=============================================================================
